---------------------------- MODULE Spec2Model ----------------------------
(***************************************************************************)
(* A model of the mtuq grid-search driver and of the Dataset container.    *)
(*                                                                         *)
(*   SpecGrid : the MPI driver CapStyleGridSearch.DoubleCouple+Magnitude+  *)
(*              Depth.py: broadcast of data and Green's functions, the     *)
(*              per-rank grid search, the gather, the merge and the        *)
(*              best-fit selection.                                        *)
(*   SpecMax  : Dataset.max() of mtuq/dataset.py over bounded Datasets.    *)
(*   SpecData : Dataset.append / map / apply of mtuq/dataset.py over a     *)
(*              heap of stream objects.                                    *)
(*   SpecOps  : Dataset.append / select / sort_by_* / get_stations /       *)
(*              get_origins, called in any order once the Dataset is       *)
(*              filled.                                                    *)
(*   SpecTags : Dataset.append / tag_add / tag_remove.                     *)
(*   SpecReturn : Dataset.append / map / apply / select, for the Dataset   *)
(*              they return.                                               *)
(*   SpecSelect : Dataset.select, and append / tag_add / tag_remove on the *)
(*              Dataset it returned.                                       *)
(*   SpecWaveform : the trace loops of mtuq/graphics/waveform.py.          *)
(*   SpecDepth : the reductions of mtuq/graphics/uq/depth.py.              *)
(***************************************************************************)
EXTENDS Integers, Sequences, FiniteSets, TLC

(***************************************************************************)
(* Bounds of the model.                                                    *)
(***************************************************************************)
\* largest grid size N
MaxN == 6
\* largest number of MPI ranks W
MaxW == 4
\* number of depths searched (the driver uses 8)
NumDepths == 2
\* largest index of the family of misfit functions
MaxProfile == 1
\* largest number of traces (and of streams) of a Dataset handed to max()
MaxTraces == 2
\* largest number of streams of a Dataset handed to map / apply
MaxStreams == 2
\* largest number of traces of a station's stream in a waveform figure
MaxPairs == 2
\* largest number of sources of one depth slice of a misfit surface
MaxSources == 2
\* largest x for which exp(-x) is not rounded to zero (745 for a double)
MaxExponent == 6

None == "None"

\* a result that has not been produced yet
Unset == << >>

VARIABLES
    \* ---- the MPI driver --------------------------------------------------
    nproc,             \* comm.Get_size()
    npts,              \* size of the source grid
    scheme,            \* how the grid is partitioned among the ranks
    profile,           \* which misfit function the run evaluates
    pc,                \* rank -> where the rank is in the script
    data,              \* rank -> data_bw / data_sw held by the rank
    greens,            \* rank -> greens_bw / greens_sw held by the rank
    bcastData,         \* the data broadcast by the root, once posted
    bcastGreens,       \* the Green's functions broadcast by the root
    results,           \* rank -> depth -> scores of the rank's chunk
    sent,              \* rank -> what the rank handed to comm.gather
    results_unsorted,  \* what comm.gather returned on the root
    merged,            \* the root's results dictionary after the merge
    best_misfit,       \* depth -> results[depth].min()
    best_mt,           \* depth -> grid.get(results[depth].argmin())
    evals,             \* history: grid index -> ranks that evaluated it
    \* ---- Dataset.max() --------------------------------------------------
    ds,                \* the Dataset: a list of streams, each a list of traces
    max_all,           \* <<what max() returned>>, once it was called
    \* ---- Dataset.append / map / apply ----------------------------------
    heap,              \* the stream objects: a reference is an index
    self,              \* the source Dataset: its list of references
    self_id,           \* the source Dataset's id
    op,                \* <<the last map / apply call>>, once there was one
    out,               \* <<the Dataset the call returned>>, if it returned
    calls,             \* the calls of the function made by the last call
    snap,              \* the heap as it was before the last call
    warnings,          \* the warnings append, map and apply emitted so far
    \* ---- Dataset.select / sorts / tags / get_origins --------------------
    raised,            \* the exception the last call raised, or "none"
    prev,              \* the source Dataset's list before the last call
    tagLog,            \* history: the tag calls since the last append
    emitted,           \* the warnings the last call emitted
    \* ---- graphics: depth reductions and waveform figures ---------------
    surface,           \* <<the misfit surface ds the caller holds>>
    misfit,            \* history: <<the values the surface was made with>>
    reduction,         \* <<the last plot_*_depth call and what it did>>
    stream_dat,        \* the data traces of one station
    stream_syn,        \* the synthetic traces of the same station
    figure             \* <<what the last waveform loop did>>

gridVars == <<nproc, npts, scheme, profile, pc, data, greens, bcastData,
              bcastGreens, results, sent, results_unsorted, merged,
              best_misfit, best_mt, evals>>

maxVars == <<ds, max_all>>

opsVars == <<raised, prev, tagLog, emitted>>

dataVars == <<heap, self, self_id, op, out, calls, snap, warnings, opsVars>>

graphicsVars == <<surface, misfit, reduction, stream_dat, stream_syn, figure>>

vars == <<gridVars, maxVars, dataVars, graphicsVars>>

Depths == 1..NumDepths
Ranks == 0..(nproc - 1)

(***************************************************************************)
(* Helpers on sequences.                                                   *)
(***************************************************************************)
Min2(a, b) == IF a <= b THEN a ELSE b

\* ndarray.min(): the smallest entry of a non-empty vector
RECURSIVE SeqMin(_)
SeqMin(s) ==
    IF Len(s) = 1 THEN s[1]
    ELSE Min2(s[1], SeqMin(Tail(s)))

\* a scan that keeps the last position of the minimum
RECURSIVE ArgMinScanLast(_, _, _)
ArgMinScanLast(s, k, best) ==
    IF k > Len(s) THEN best - 1
    ELSE ArgMinScanLast(s, k + 1, IF s[k] <= s[best] THEN k ELSE best)

ArgMinLast(s) == ArgMinScanLast(s, 2, 1)

\* ndarray.argmin(): a left-to-right scan that replaces the running minimum
\* only by a strictly smaller entry; the result is a 0-based index
RECURSIVE ArgMinScan(_, _, _)
ArgMinScan(s, k, best) ==
    IF k > Len(s) THEN best - 1
    ELSE ArgMinScan(s, k + 1, IF s[k] < s[best] THEN k ELSE best)

ArgMin(s) == ArgMinScan(s, 2, 1)

(***************************************************************************)
(* The collaborators of the driver that the search consumes.               *)
(***************************************************************************)
\* grid.get(index): a pure mapping from a grid index to a source
GridGet(i) == <<"mt", i>>

\* the total misfit of grid point i at depth d; the family is indexed by p
Score(p, d, i) == ((i + d) * (p + 1)) % (p + 2)

\* contiguous chunks in rank order, sizes differing by one at most
ChunkStart(n, w, r) == r * (n \div w) + Min2(r, n % w)
ChunkContiguous(n, w, r) ==
    [k \in 1..(ChunkStart(n, w, r + 1) - ChunkStart(n, w, r)) |->
        ChunkStart(n, w, r) + k - 1]

\* strided chunks: rank r takes r, r+w, r+2w, ...
ChunkStrided(n, w, r) ==
    [k \in 1..Cardinality({i \in 0..(n - 1) : i % w = r}) |->
        r + (k - 1) * w]

\* the grid indices a rank evaluates, in the order it evaluates them
Chunk(r) ==
    IF scheme = "contiguous" THEN ChunkContiguous(npts, nproc, r)
    ELSE ChunkStrided(npts, nproc, r)

EmptyResults == [d \in Depths |-> << >>]

(***************************************************************************)
(* The driver: initial state.                                              *)
(***************************************************************************)
InitGrid ==
    /\ nproc \in 1..MaxW
    /\ npts \in 1..MaxN
    /\ scheme \in {"contiguous", "strided"}
    /\ profile \in 0..MaxProfile
    /\ pc = [r \in Ranks |-> IF r = 0 THEN "read" ELSE "bcast_data"]
    /\ data = [r \in Ranks |-> None]
    /\ greens = [r \in Ranks |-> "empty"]
    /\ bcastData = None
    /\ bcastGreens = None
    /\ results = [r \in Ranks |-> EmptyResults]
    /\ sent = [r \in Ranks |-> Unset]
    /\ results_unsorted = Unset
    /\ merged = Unset
    /\ best_misfit = Unset
    /\ best_mt = Unset
    /\ evals = [i \in 0..(npts - 1) |-> << >>]
    /\ ds = << >>
    /\ max_all = Unset
    /\ heap = << >>
    /\ self = << >>
    /\ self_id = "event"
    /\ op = Unset
    /\ out = Unset
    /\ calls = << >>
    /\ snap = << >>
    /\ warnings = << >>
    /\ raised = "none"
    /\ prev = << >>
    /\ tagLog = << >>
    /\ emitted = << >>
    /\ surface = Unset
    /\ misfit = Unset
    /\ reduction = Unset
    /\ stream_dat = << >>
    /\ stream_syn = << >>
    /\ figure = Unset

(***************************************************************************)
(* The driver: one action per step of the script.                          *)
(***************************************************************************)
\* rank 0 reads, sorts and processes the data
ReadData ==
    /\ pc[0] = "read"
    /\ data' = [data EXCEPT ![0] = "processed"]
    /\ pc' = [pc EXCEPT ![0] = "bcast_data"]
    /\ UNCHANGED maxVars
    /\ UNCHANGED dataVars
    /\ UNCHANGED graphicsVars
    /\ UNCHANGED <<nproc, npts, scheme, profile, greens, bcastData,
                   bcastGreens, results, sent, results_unsorted, merged,
                   best_misfit, best_mt, evals>>

\* comm.bcast(data, root=0) on the root: the root's value is sent
BcastDataRoot ==
    /\ pc[0] = "bcast_data"
    /\ bcastData' = data[0]
    /\ pc' = [pc EXCEPT ![0] = "get_greens"]
    /\ UNCHANGED maxVars
    /\ UNCHANGED dataVars
    /\ UNCHANGED graphicsVars
    /\ UNCHANGED <<nproc, npts, scheme, profile, data, greens,
                   bcastGreens, results, sent, results_unsorted, merged,
                   best_misfit, best_mt, evals>>

\* a bcast that returns whatever the receive buffer holds, without waiting
BcastDataRecvNoWait(r) ==
    /\ r # 0
    /\ pc[r] = "bcast_data"
    /\ data' = [data EXCEPT ![r] = bcastData]
    /\ pc' = [pc EXCEPT ![r] = "bcast_greens"]
    /\ UNCHANGED maxVars
    /\ UNCHANGED dataVars
    /\ UNCHANGED graphicsVars
    /\ UNCHANGED <<nproc, npts, scheme, profile, greens, bcastData,
                   bcastGreens, results, sent, results_unsorted, merged,
                   best_misfit, best_mt, evals>>

\* comm.bcast(data, root=0) on another rank: blocks until the root's value
\* has arrived and returns it
BcastDataRecv(r) ==
    /\ r # 0
    /\ pc[r] = "bcast_data"
    /\ bcastData # None
    /\ data' = [data EXCEPT ![r] = bcastData]
    /\ pc' = [pc EXCEPT ![r] = "bcast_greens"]
    /\ UNCHANGED maxVars
    /\ UNCHANGED dataVars
    /\ UNCHANGED graphicsVars
    /\ UNCHANGED <<nproc, npts, scheme, profile, greens, bcastData,
                   bcastGreens, results, sent, results_unsorted, merged,
                   best_misfit, best_mt, evals>>

\* rank 0 obtains, convolves and processes the Green's functions
GetGreens ==
    /\ pc[0] = "get_greens"
    /\ greens' = [greens EXCEPT ![0] = "full"]
    /\ pc' = [pc EXCEPT ![0] = "bcast_greens"]
    /\ UNCHANGED maxVars
    /\ UNCHANGED dataVars
    /\ UNCHANGED graphicsVars
    /\ UNCHANGED <<nproc, npts, scheme, profile, data, bcastData,
                   bcastGreens, results, sent, results_unsorted, merged,
                   best_misfit, best_mt, evals>>

\* comm.bcast(greens, root=0) on the root
BcastGreensRoot ==
    /\ pc[0] = "bcast_greens"
    /\ bcastGreens' = greens[0]
    /\ pc' = [pc EXCEPT ![0] = "search"]
    /\ UNCHANGED maxVars
    /\ UNCHANGED dataVars
    /\ UNCHANGED graphicsVars
    /\ UNCHANGED <<nproc, npts, scheme, profile, data, greens, bcastData,
                   results, sent, results_unsorted, merged,
                   best_misfit, best_mt, evals>>

\* comm.bcast(greens, root=0) on another rank
BcastGreensRecv(r) ==
    /\ r # 0
    /\ pc[r] = "bcast_greens"
    /\ bcastGreens # None
    /\ greens' = [greens EXCEPT ![r] = bcastGreens]
    /\ pc' = [pc EXCEPT ![r] = "search"]
    /\ UNCHANGED maxVars
    /\ UNCHANGED dataVars
    /\ UNCHANGED graphicsVars
    /\ UNCHANGED <<nproc, npts, scheme, profile, data, bcastData,
                   bcastGreens, results, sent, results_unsorted, merged,
                   best_misfit, best_mt, evals>>

\* grid_search_mt_depth, one grid point: the rank evaluates the next index
\* of its chunk at every depth and stores the scores
Evaluate(r) ==
    /\ pc[r] = "search"
    /\ Len(results[r][1]) < Len(Chunk(r))
    /\ LET i == Chunk(r)[Len(results[r][1]) + 1] IN
        /\ results' = [results EXCEPT ![r] =
               [d \in Depths |-> Append(results[r][d], Score(profile, d, i))]]
        /\ evals' = [evals EXCEPT ![i] = Append(evals[i], r)]
    /\ UNCHANGED maxVars
    /\ UNCHANGED dataVars
    /\ UNCHANGED graphicsVars
    /\ UNCHANGED <<nproc, npts, scheme, profile, pc, data, greens,
                   bcastData, bcastGreens, sent, results_unsorted, merged,
                   best_misfit, best_mt>>

\* grid_search_mt_depth raises on a rank: the rank's process ends there
EvaluateFails(r) ==
    /\ pc[r] = "search"
    /\ Len(results[r][1]) < Len(Chunk(r))
    /\ pc' = [pc EXCEPT ![r] = "failed"]
    /\ UNCHANGED maxVars
    /\ UNCHANGED dataVars
    /\ UNCHANGED graphicsVars
    /\ UNCHANGED <<nproc, npts, scheme, profile, data, greens, bcastData,
                   bcastGreens, results, sent, results_unsorted, merged,
                   best_misfit, best_mt, evals>>

\* grid_search_mt_depth returns the rank's chunk of scores
SearchReturns(r) ==
    /\ pc[r] = "search"
    /\ Len(results[r][1]) = Len(Chunk(r))
    /\ pc' = [pc EXCEPT ![r] = "gather"]
    /\ UNCHANGED maxVars
    /\ UNCHANGED dataVars
    /\ UNCHANGED graphicsVars
    /\ UNCHANGED <<nproc, npts, scheme, profile, data, greens, bcastData,
                   bcastGreens, results, sent, results_unsorted, merged,
                   best_misfit, best_mt, evals>>

\* comm.gather(results, root=0) on a rank other than the root: the rank
\* hands over its chunk and goes on to the end of the script
GatherSend(r) ==
    /\ r # 0
    /\ pc[r] = "gather"
    /\ sent' = [sent EXCEPT ![r] = results[r]]
    /\ pc' = [pc EXCEPT ![r] = "done"]
    /\ UNCHANGED maxVars
    /\ UNCHANGED dataVars
    /\ UNCHANGED graphicsVars
    /\ UNCHANGED <<nproc, npts, scheme, profile, data, greens, bcastData,
                   bcastGreens, results, results_unsorted, merged,
                   best_misfit, best_mt, evals>>

\* a gather that returns as soon as the ranks still alive have contributed
GatherReadyPartial ==
    \A r \in Ranks \ {0} : sent[r] # Unset \/ pc[r] = "failed"

\* comm.gather on the root returns once every other rank has contributed
GatherReady == \A r \in Ranks \ {0} : sent[r] # Unset

\* comm.gather(results, root=0) on the root: the list of all chunks,
\* indexed by rank
GatherRoot ==
    /\ pc[0] = "gather"
    /\ GatherReady
    /\ results_unsorted' =
           [r \in Ranks |-> IF r = 0 THEN results[0]
                            ELSE IF sent[r] = Unset THEN results[r]
                            ELSE sent[r]]
    /\ pc' = [pc EXCEPT ![0] = "merge"]
    /\ UNCHANGED maxVars
    /\ UNCHANGED dataVars
    /\ UNCHANGED graphicsVars
    /\ UNCHANGED <<nproc, npts, scheme, profile, data, greens, bcastData,
                   bcastGreens, results, sent, merged,
                   best_misfit, best_mt, evals>>

\* np.concatenate over a list that misses the last rank
RECURSIVE ConcatenateUpTo(_, _, _)
ConcatenateUpTo(ru, d, k) ==
    IF k < 0 THEN << >>
    ELSE ConcatenateUpTo(ru, d, k - 1) \o ru[k][d]

\* np.concatenate over the ranks taken in descending order
RECURSIVE ConcatenateDownFrom(_, _, _)
ConcatenateDownFrom(ru, d, k) ==
    IF k < 0 THEN << >>
    ELSE ru[k][d] \o ConcatenateDownFrom(ru, d, k - 1)

ConcatenateReversed(ru, d) == ConcatenateDownFrom(ru, d, nproc - 1)

ConcatenateDropLast(ru, d) == ConcatenateUpTo(ru, d, nproc - 2)

\* np.concatenate([results_unsorted[iproc][depth] for iproc in range(nproc)])
Concatenate(ru, d) == ConcatenateUpTo(ru, d, nproc - 1)

\* the root merges the gathered chunks, depth by depth
Merge ==
    /\ pc[0] = "merge"
    /\ merged' = [d \in Depths |-> Concatenate(results_unsorted, d)]
    /\ pc' = [pc EXCEPT ![0] = "best"]
    /\ UNCHANGED maxVars
    /\ UNCHANGED dataVars
    /\ UNCHANGED graphicsVars
    /\ UNCHANGED <<nproc, npts, scheme, profile, data, greens, bcastData,
                   bcastGreens, results, sent, results_unsorted,
                   best_misfit, best_mt, evals>>

\* the root selects the best misfit and the best source of every depth
BestFit ==
    /\ pc[0] = "best"
    /\ best_misfit' = [d \in Depths |-> SeqMin(merged[d])]
    /\ best_mt' = [d \in Depths |-> GridGet(ArgMin(merged[d]))]
    /\ pc' = [pc EXCEPT ![0] = "done"]
    /\ UNCHANGED maxVars
    /\ UNCHANGED dataVars
    /\ UNCHANGED graphicsVars
    /\ UNCHANGED <<nproc, npts, scheme, profile, data, greens, bcastData,
                   bcastGreens, results, sent, results_unsorted, merged,
                   evals>>

NextGrid ==
    \/ ReadData
    \/ BcastDataRoot
    \/ GetGreens
    \/ BcastGreensRoot
    \/ \E r \in Ranks : BcastDataRecv(r)
    \/ \E r \in Ranks : BcastGreensRecv(r)
    \/ \E r \in Ranks : Evaluate(r)
    \/ \E r \in Ranks : EvaluateFails(r)
    \/ \E r \in Ranks : SearchReturns(r)
    \/ \E r \in Ranks : GatherSend(r)
    \/ GatherRoot
    \/ Merge
    \/ BestFit

SpecGrid == InitGrid /\ [][NextGrid]_vars

(***************************************************************************)
(* Dataset.max(): the Datasets it is applied to.                           *)
(*                                                                         *)
(* A trace is its samples and its weight attribute, which may be missing.  *)
(* Samples are small integers; a trace has one or two samples.             *)
(***************************************************************************)
Amps == -1..1

TraceData == {<<a>> : a \in Amps} \cup {<<a, b>> : a \in Amps, b \in Amps}

Traces ==
    {[data |-> x, hasWeight |-> FALSE, weight |-> 0] : x \in TraceData}
    \cup {[data |-> x, hasWeight |-> TRUE, weight |-> w] :
             x \in TraceData, w \in {0, 1}}

\* -np.inf, written as an integer below every sample
NegInf == -999

Abs(x) == IF x < 0 THEN -x ELSE x

Max2(a, b) == IF a >= b THEN a ELSE b

\* trace.data.max()
RECURSIVE DataMax(_)
DataMax(x) ==
    IF Len(x) = 1 THEN x[1] ELSE Max2(x[1], DataMax(Tail(x)))

\* abs(trace.data).max()
RECURSIVE AbsDataMax(_)
AbsDataMax(x) ==
    IF Len(x) = 1 THEN Abs(x[1]) ELSE Max2(Abs(x[1]), AbsDataMax(Tail(x)))

\* getattr(trace, 'weight', 1.)
GetWeight(trace) == IF trace.hasWeight THEN trace.weight ELSE 1

\* a loop that never skips a trace
SkippedNever(trace) == FALSE

\* not getattr(trace, 'weight', 1.): the trace is skipped
Skipped(trace) == GetWeight(trace) = 0

\* a loop body that stores the raw maximum
VisitTraceRaw(m, trace) ==
    IF Skipped(trace) THEN m
    ELSE IF DataMax(trace.data) > m THEN DataMax(trace.data)
    ELSE m

\* the body of the inner loop of max(): max_all after one trace
VisitTrace(m, trace) ==
    IF Skipped(trace) THEN m
    ELSE IF DataMax(trace.data) > m THEN AbsDataMax(trace.data)
    ELSE m

\* for trace in stream
RECURSIVE VisitStream(_, _)
VisitStream(m, stream) ==
    IF stream = << >> THEN m
    ELSE VisitStream(VisitTrace(m, Head(stream)), Tail(stream))

\* for stream in self
RECURSIVE VisitDataset(_, _)
VisitDataset(m, d) ==
    IF d = << >> THEN m
    ELSE VisitDataset(VisitStream(m, Head(d)), Tail(d))

\* Dataset.max()
Max(d) == VisitDataset(NegInf, d)

RECURSIVE CountTraces(_)
CountTraces(d) ==
    IF d = << >> THEN 0 ELSE Len(Head(d)) + CountTraces(Tail(d))

InitMax ==
    /\ ds = << >>
    /\ max_all = Unset
    /\ heap = << >>
    /\ self = << >>
    /\ self_id = "event"
    /\ op = Unset
    /\ out = Unset
    /\ calls = << >>
    /\ snap = << >>
    /\ warnings = << >>
    /\ raised = "none"
    /\ prev = << >>
    /\ tagLog = << >>
    /\ emitted = << >>
    /\ surface = Unset
    /\ misfit = Unset
    /\ reduction = Unset
    /\ stream_dat = << >>
    /\ stream_syn = << >>
    /\ figure = Unset
    /\ nproc = 1
    /\ npts = 1
    /\ scheme = "contiguous"
    /\ profile = 0
    /\ pc = [r \in Ranks |-> "idle"]
    /\ data = [r \in Ranks |-> None]
    /\ greens = [r \in Ranks |-> "empty"]
    /\ bcastData = None
    /\ bcastGreens = None
    /\ results = [r \in Ranks |-> EmptyResults]
    /\ sent = [r \in Ranks |-> Unset]
    /\ results_unsorted = Unset
    /\ merged = Unset
    /\ best_misfit = Unset
    /\ best_mt = Unset
    /\ evals = [i \in 0..(npts - 1) |-> << >>]

\* the reader appends a stream that holds no trace yet
NewStream ==
    /\ max_all = Unset
    /\ Len(ds) < MaxTraces
    /\ ds' = Append(ds, << >>)
    /\ UNCHANGED max_all
    /\ UNCHANGED gridVars
    /\ UNCHANGED dataVars
    /\ UNCHANGED graphicsVars

\* the reader appends a trace to the last stream
NewTrace ==
    /\ max_all = Unset
    /\ ds # << >>
    /\ CountTraces(ds) < MaxTraces
    /\ \E trace \in Traces :
        ds' = [ds EXCEPT ![Len(ds)] = Append(ds[Len(ds)], trace)]
    /\ UNCHANGED max_all
    /\ UNCHANGED gridVars
    /\ UNCHANGED dataVars
    /\ UNCHANGED graphicsVars

\* a call of Dataset.max()
CallMax ==
    /\ max_all = Unset
    /\ max_all' = <<Max(ds)>>
    /\ UNCHANGED ds
    /\ UNCHANGED gridVars
    /\ UNCHANGED dataVars
    /\ UNCHANGED graphicsVars

NextMax ==
    \/ NewStream
    \/ NewTrace
    \/ CallMax

SpecMax == InitMax /\ [][NextMax]_vars

(***************************************************************************)
(* Dataset.append, Dataset.map and Dataset.apply over a heap of streams.   *)
(*                                                                         *)
(* A stream object holds its network.station.location triple, its samples  *)
(* (one small integer stands for the traces' samples), its station and     *)
(* origin metadata (0: the attribute is missing) and what append derives:  *)
(* id, tags and geo = <<distance_in_m, azimuth>>.                          *)
(***************************************************************************)
Triples == {<<"AK", "S1", "00">>, <<"AK", "S2", "00">>}

SampleValues == 0..1

\* the items of the sequences handed to map, and the arguments of apply
ArgValues == 0..1

\* the behaviours of the function handed to map / apply: it returns a
\* processed copy, processes in place and returns its argument, returns its
\* argument untouched, or processes in place and returns a copy
Functions == {"copy", "inplace", "same", "inplace_copy"}

\* a stream as a reader creates it, before it is appended
NewStreams ==
    {[triple |-> t, samples |-> v, station |-> st, origin |-> og,
      id |-> << >>, hasTags |-> FALSE, tags |-> << >>, geo |-> << >>] :
        t \in Triples, v \in SampleValues, st \in 0..1, og \in 0..1}

\* an identifier that leaves the location code out
IdWithoutLocation(t) == <<t[1], ".", t[2]>>

\* '.'.join([network, station, location])
IdOf(t) == <<t[1], ".", t[2], ".", t[3]>>

\* gps2dist_azimuth(origin, station): distance and azimuth
GpsDistAzimuth(og, st) == <<10 * Abs(og - st) + st, og + st>>

\* an append that never computes the distance and the azimuth
AppendWithoutGeo(o) ==
    [o EXCEPT !.id = IdOf(o.triple),
              !.hasTags = TRUE,
              !.tags = IF o.hasTags THEN o.tags ELSE << >>]

\* what append writes on the stream it is given (lines 43-68)
AppendAttributes(o) ==
    [o EXCEPT !.id = IdOf(o.triple),
              !.hasTags = TRUE,
              !.tags = IF o.hasTags THEN o.tags ELSE << >>,
              !.geo = IF o.station = 0 \/ o.origin = 0 THEN o.geo
                      ELSE GpsDistAzimuth(o.origin, o.station)]

\* the warnings append emits for the stream
AppendWarnings(o) ==
    IF o.station = 0 THEN <<"Stream lacks station metadata">>
    ELSE IF o.origin = 0 THEN <<"Stream lacks origin metadata">>
    ELSE << >>

\* Dataset.__init__(streams, id): append of every stream, in order; the
\* result is the heap and the warnings after the k-th append
RECURSIVE Construct(_, _, _, _)
Construct(h, w, refs, k) ==
    IF k > Len(refs) THEN [heap |-> h, warnings |-> w]
    ELSE Construct([h EXCEPT ![refs[k]] = AppendAttributes(h[refs[k]])],
                   w \o AppendWarnings(h[refs[k]]), refs, k + 1)

SumSeq(a) == IF a = << >> THEN 0 ELSE IF Len(a) = 1 THEN a[1] ELSE a[1] + a[2]

\* what the processing function computes from the samples and its arguments
ProcessSamples(v, args) == (v + 1 + SumSeq(args)) % 3

\* one call function(stream, *args): the heap after it and what it returns
CallFunction(h, f, r, args) ==
    LET processed == [h[r] EXCEPT !.samples = ProcessSamples(h[r].samples, args)]
    IN  CASE f = "copy" ->
                [heap |-> Append(h, processed), ret |-> Len(h) + 1]
          [] f = "inplace" ->
                [heap |-> [h EXCEPT ![r] = processed], ret |-> r]
          [] f = "same" ->
                [heap |-> h, ret |-> r]
          [] f = "inplace_copy" ->
                [heap |-> Append([h EXCEPT ![r] = processed], processed),
                 ret |-> Len(h) + 1]

\* a loop that hands a copy of the stream to the function
PassCopy(h, r) == [heap |-> Append(h, h[r]), ref |-> Len(h) + 1]

\* for stream in self: the function is handed the stream object itself
PassStream(h, r) == [heap |-> h, ref |-> r]

\* a loop that takes the first item of every sequence for every stream
ArgsFirst(sequences, i) == [k \in 1..Len(sequences) |-> sequences[k][1]]

\* args = [sequence[_i] for sequence in sequences]
ArgsAt(sequences, i) == [k \in 1..Len(sequences) |-> sequences[k][i]]

\* a loop that refuses every sequence whose length is not the Dataset's
LengthsDiffer(sequences, i) ==
    \E k \in 1..Len(sequences) : Len(sequences[k]) # Len(self)

\* sequence[_i] raises IndexError
IndexErrorAt(sequences, i) ==
    \E k \in 1..Len(sequences) : Len(sequences[k]) < i

\* the loop of map from the i-th stream on: the heap, the streams returned
\* so far, the calls made so far, and whether the loop raised
RECURSIVE MapLoop(_, _, _, _, _, _)
MapLoop(h, f, sequences, i, rets, log) ==
    IF i > Len(self) THEN
        [heap |-> h, processed |-> rets, calls |-> log, raised |-> FALSE]
    ELSE IF IndexErrorAt(sequences, i) THEN
        [heap |-> h, processed |-> rets, calls |-> log, raised |-> TRUE]
    ELSE
        LET arg == PassStream(h, self[i])
            c == CallFunction(arg.heap, f, arg.ref, ArgsAt(sequences, i))
        IN  MapLoop(c.heap, f, sequences, i + 1, Append(rets, c.ret),
                    Append(log, [stream |-> arg.ref,
                                 args |-> ArgsAt(sequences, i),
                                 ret |-> c.ret]))

\* the loop of apply from the i-th stream on
RECURSIVE ApplyLoop(_, _, _, _, _, _)
ApplyLoop(h, f, args, i, rets, log) ==
    IF i > Len(self) THEN
        [heap |-> h, processed |-> rets, calls |-> log, raised |-> FALSE]
    ELSE
        LET arg == PassStream(h, self[i])
            c == CallFunction(arg.heap, f, arg.ref, args)
        IN  ApplyLoop(c.heap, f, args, i + 1, Append(rets, c.ret),
                      Append(log, [stream |-> arg.ref, args |-> args,
                                   ret |-> c.ret]))

\* the sequences map may be handed: of any length up to one more than the
\* Dataset's
SequencesOfArgs == UNION {[1..n -> ArgValues] : n \in 0..(Len(self) + 1)}

InitData ==
    /\ heap = << >>
    /\ self = << >>
    /\ self_id \in {"event"}
    /\ op = Unset
    /\ out = Unset
    /\ calls = << >>
    /\ snap = << >>
    /\ warnings = << >>
    /\ raised = "none"
    /\ prev = << >>
    /\ tagLog = << >>
    /\ emitted = << >>
    /\ surface = Unset
    /\ misfit = Unset
    /\ reduction = Unset
    /\ stream_dat = << >>
    /\ stream_syn = << >>
    /\ figure = Unset
    /\ ds = << >>
    /\ max_all = Unset
    /\ nproc = 1
    /\ npts = 1
    /\ scheme = "contiguous"
    /\ profile = 0
    /\ pc = [r \in Ranks |-> "idle"]
    /\ data = [r \in Ranks |-> None]
    /\ greens = [r \in Ranks |-> "empty"]
    /\ bcastData = None
    /\ bcastGreens = None
    /\ results = [r \in Ranks |-> EmptyResults]
    /\ sent = [r \in Ranks |-> Unset]
    /\ results_unsorted = Unset
    /\ merged = Unset
    /\ best_misfit = Unset
    /\ best_mt = Unset
    /\ evals = [i \in 0..(npts - 1) |-> << >>]

\* the reader is still filling the Dataset
Building == IF op = Unset THEN TRUE ELSE op[1].name = "append"

\* a Dataset made without the id= keyword: its id is the default, None
NewDatasetNoId(streams, id) == [streams |-> streams, id |-> None]

\* self.__class__(streams, id=self.id): the object the constructor makes
NewDataset(streams, id) == [streams |-> streams, id |-> id]

\* Dataset.append(stream) of a stream the reader has just created
AppendStream ==
    /\ op = Unset
    /\ Len(self) < MaxStreams
    /\ \E stream \in NewStreams :
        /\ heap' = Append(heap, AppendAttributes(stream))
        /\ warnings' = warnings \o AppendWarnings(stream)
    /\ self' = Append(self, Len(heap) + 1)
    /\ UNCHANGED <<self_id, op, out, calls, snap>>
    /\ UNCHANGED opsVars
    /\ UNCHANGED gridVars
    /\ UNCHANGED maxVars
    /\ UNCHANGED graphicsVars

\* the end of map and of apply: return self.__class__(processed, id=self.id),
\* unless the loop raised
ReturnDataset(loop) ==
    /\ calls' = loop.calls
    /\ snap' = heap
    /\ IF loop.raised
       THEN /\ heap' = loop.heap
            /\ out' = Unset
            /\ UNCHANGED warnings
       ELSE LET made == Construct(loop.heap, warnings, loop.processed, 1) IN
            /\ heap' = made.heap
            /\ warnings' = made.warnings
            /\ out' = <<NewDataset(loop.processed, self_id)>>

\* Dataset.map(function, *sequences), with no sequence or with one
MapDataset ==
    /\ Building
    /\ \E f \in Functions :
       \E sequences \in {<< >>} \cup {<<x>> : x \in SequencesOfArgs} :
        /\ op' = <<[name |-> "map", function |-> f, sequences |-> sequences,
                    args |-> << >>]>>
        /\ ReturnDataset(MapLoop(heap, f, sequences, 1, << >>, << >>))
    /\ UNCHANGED <<self, self_id>>
    /\ UNCHANGED opsVars
    /\ UNCHANGED gridVars
    /\ UNCHANGED maxVars
    /\ UNCHANGED graphicsVars

\* Dataset.apply(function, *args), with no argument or with one
ApplyDataset ==
    /\ Building
    /\ \E f \in Functions :
       \E args \in {<< >>} \cup {<<a>> : a \in ArgValues} :
        /\ op' = <<[name |-> "apply", function |-> f, sequences |-> << >>,
                    args |-> args]>>
        /\ ReturnDataset(ApplyLoop(heap, f, args, 1, << >>, << >>))
    /\ UNCHANGED <<self, self_id>>
    /\ UNCHANGED opsVars
    /\ UNCHANGED gridVars
    /\ UNCHANGED maxVars
    /\ UNCHANGED graphicsVars

NextData ==
    \/ AppendStream
    \/ MapDataset
    \/ ApplyDataset

SpecData == InitData /\ [][NextData]_vars

(***************************************************************************)
(* Dataset.append, select, the sorts, the tags and get_stations /          *)
(* get_origins, called in any order on the Dataset a reader has filled.    *)
(***************************************************************************)
\* the station and origin metadata of the streams a reader hands to
\* append, <<station, origin>>: each is missing (0) or one of two values
Metadata == {<<1, 1>>, <<1, 2>>, <<2, 1>>, <<2, 2>>,
             <<0, 1>>, <<1, 0>>, <<0, 0>>}

\* the network, station and location codes of a stream: those of station 2,
\* or of station 1, which are also the codes the first trace of a stream
\* without station metadata carries
TripleOf(st) ==
    IF st = 2 THEN <<"AK", "S2", "00">> ELSE <<"AK", "S1", "00">>

ReaderStreams ==
    {[triple |-> TripleOf(m[1]), samples |-> 0, station |-> m[1],
      origin |-> m[2], id |-> << >>, hasTags |-> FALSE, tags |-> << >>,
      geo |-> << >>] : m \in Metadata}

\* arguments of append that are not a Stream
NonStreams == {"list of traces", "number"}

\* the tags nobody has added or removed since the last append
NoTagCalls == [t \in {"a", "b"} |-> "none"]

\* a call that fails: nothing is returned
Raise(exception) ==
    /\ raised' = exception
    /\ out' = Unset

\* assert issubclass(type(stream), Stream), ValueError(...): the assert
\* statement raises AssertionError, with the ValueError as its message
AppendNonStream ==
    /\ \E stream \in NonStreams :
        op' = <<[name |-> "append", isStream |-> FALSE, stream |-> stream]>>
    /\ Raise("AssertionError")
    /\ snap' = heap
    /\ prev' = self
    /\ emitted' = << >>
    /\ UNCHANGED <<heap, self, self_id, calls, warnings, tagLog>>
    /\ UNCHANGED gridVars
    /\ UNCHANGED maxVars
    /\ UNCHANGED graphicsVars

\* Dataset.append(stream) of a stream the reader has just created
AppendCall ==
    /\ Building
    /\ Len(self) < MaxStreams
    /\ \E stream \in ReaderStreams :
        /\ op' = <<[name |-> "append", isStream |-> TRUE, stream |-> stream]>>
        /\ heap' = Append(heap, AppendAttributes(stream))
        /\ emitted' = AppendWarnings(stream)
        /\ warnings' = warnings \o AppendWarnings(stream)
    /\ self' = Append(self, Len(heap) + 1)
    /\ raised' = "none"
    /\ out' = Unset
    /\ snap' = heap
    /\ prev' = self
    /\ tagLog' = NoTagCalls
    /\ UNCHANGED <<self_id, calls>>
    /\ UNCHANGED gridVars
    /\ UNCHANGED maxVars
    /\ UNCHANGED graphicsVars

\* what the caller passes for origin= and station=: nothing (None), a
\* value that is false in a condition (0), or one of the two values
Criteria == {Unset} \cup {<<v>> : v \in 0..2}

\* `if origin`, `elif station`: None and values that are false fail the test
Truthy(c) == c # Unset /\ c[1] # 0

\* stream.station==station: the attribute may be missing
StationEquals(o, station) ==
    [raised |-> o.station = 0,
     keep |-> o.station # 0 /\ o.station = station[1]]

\* stream.origin==origin
OriginEquals(o, origin) ==
    [raised |-> o.origin = 0,
     keep |-> o.origin # 0 /\ o.origin = origin[1]]

\* the lambda select hands to filter, for the branch select takes
Selects(o, origin, station) ==
    IF Truthy(origin) /\ Truthy(station) THEN
        LET s == StationEquals(o, station) IN
        IF s.raised \/ ~s.keep THEN s ELSE OriginEquals(o, origin)
    ELSE IF Truthy(station) THEN StationEquals(o, station)
    ELSE OriginEquals(o, origin)

\* filter(lambda, self) from the i-th stream on
RECURSIVE FilterLoop(_, _, _, _, _, _)
FilterLoop(h, refs, origin, station, i, kept) ==
    IF i > Len(refs) THEN [streams |-> kept, raised |-> FALSE]
    ELSE LET s == Selects(h[refs[i]], origin, station) IN
         IF s.raised THEN [streams |-> kept, raised |-> TRUE]
         ELSE FilterLoop(h, refs, origin, station, i + 1,
                         IF s.keep THEN Append(kept, refs[i]) ELSE kept)

\* map or apply has processed the source: the run ends there
Processed ==
    IF op = Unset THEN FALSE ELSE op[1].name \in {"map", "apply"}

\* Dataset.select(origin, station)
SelectDataset ==
    /\ ~Processed
    /\ \E origin \in Criteria, station \in Criteria :
        /\ op' = <<[name |-> "select", origin |-> origin,
                    station |-> station]>>
        /\ IF ~Truthy(origin) /\ ~Truthy(station) THEN
               /\ Raise("Exception")
               /\ emitted' = << >>
               /\ UNCHANGED heap
           ELSE LET found == FilterLoop(heap, self, origin, station, 1, << >>)
                    made == Construct(heap, << >>, found.streams, 1)
                IN  IF found.raised THEN
                        /\ Raise("AttributeError")
                        /\ emitted' = << >>
                        /\ UNCHANGED heap
                    ELSE
                        /\ raised' = "none"
                        /\ heap' = made.heap
                        /\ emitted' = made.warnings
                        /\ out' = <<NewDataset(found.streams, self_id)>>
    /\ snap' = heap
    /\ prev' = self
    /\ UNCHANGED <<self, self_id, calls, warnings, tagLog>>
    /\ UNCHANGED gridVars
    /\ UNCHANGED maxVars
    /\ UNCHANGED graphicsVars

\* the keys of the sorts: data.distance_in_m, data.azimuth, and a function
\* the caller supplies (here the number in the station code)
SortKeys == {"distance", "azimuth", "function"}

\* whether the key function can be evaluated on the stream
HasKey(o, key) == key = "function" \/ o.geo # << >>

KeyOf(o, key) ==
    CASE key = "distance" -> o.geo[1]
      [] key = "azimuth" -> o.geo[2]
      [] key = "function" -> IF o.triple[2] = "S1" THEN 1 ELSE 2

Reverse(s) == [i \in 1..Len(s) |-> s[Len(s) + 1 - i]]

Front(s) == SubSeq(s, 1, Len(s) - 1)

\* an insertion that puts r before the elements of equal key
RECURSIVE InsertBeforeEqual(_, _, _, _)
InsertBeforeEqual(h, key, sorted, r) ==
    IF sorted = << >> THEN <<r>>
    ELSE IF KeyOf(h[r], key) <= KeyOf(h[Head(sorted)], key)
         THEN <<r>> \o sorted
         ELSE <<Head(sorted)>> \o InsertBeforeEqual(h, key, Tail(sorted), r)

\* r is put behind every element whose key is not greater
RECURSIVE InsertSorted(_, _, _, _)
InsertSorted(h, key, sorted, r) ==
    IF sorted = << >> THEN <<r>>
    ELSE IF KeyOf(h[r], key) < KeyOf(h[Head(sorted)], key)
         THEN <<r>> \o sorted
         ELSE <<Head(sorted)>> \o InsertSorted(h, key, Tail(sorted), r)

\* the stable ascending sort of list.sort
RECURSIVE SortAscending(_, _, _)
SortAscending(h, key, refs) ==
    IF refs = << >> THEN << >>
    ELSE InsertSorted(h, key, SortAscending(h, key, Front(refs)),
                      refs[Len(refs)])

\* a descending sort that reverses the ascending one
ListSortReversesResult(h, key, refs, reverse) ==
    IF reverse THEN Reverse(SortAscending(h, key, refs))
    ELSE SortAscending(h, key, refs)

\* self.sort(key=function, reverse=reverse): with reverse the list is
\* reversed, sorted and reversed again, which keeps the sort stable
ListSort(h, key, refs, reverse) ==
    IF reverse THEN Reverse(SortAscending(h, key, Reverse(refs)))
    ELSE SortAscending(h, key, refs)

\* sort_by_function(function, reverse): a key function that raises leaves
\* the list as it was
SortCall(name, key, reverse) ==
    /\ op' = <<[name |-> name, key |-> key, reverse |-> reverse]>>
    /\ IF \E i \in 1..Len(self) : ~HasKey(heap[self[i]], key)
       THEN /\ raised' = "AttributeError"
            /\ UNCHANGED self
       ELSE /\ raised' = "none"
            /\ self' = ListSort(heap, key, self, reverse)
    /\ out' = Unset
    /\ snap' = heap
    /\ prev' = self
    /\ emitted' = << >>
    /\ UNCHANGED <<heap, self_id, calls, warnings, tagLog>>
    /\ UNCHANGED gridVars
    /\ UNCHANGED maxVars
    /\ UNCHANGED graphicsVars

SortByDistance == \E reverse \in BOOLEAN :
    SortCall("sort_by_distance", "distance", reverse)

SortByAzimuth == \E reverse \in BOOLEAN :
    SortCall("sort_by_azimuth", "azimuth", reverse)

SortByFunction == \E reverse \in BOOLEAN :
    SortCall("sort_by_function", "function", reverse)

\* the arguments of tag_add and tag_remove: strings, and a number (its
\* value written as a string)
TagArgs == {[type |-> "str", value |-> "a"], [type |-> "str", value |-> "b"],
            [type |-> "unicode", value |-> "a"],
            [type |-> "int", value |-> "5"]}

\* tag in stream.tags
In(tag, tags) == \E i \in 1..Len(tags) : tags[i] = tag

\* stream.tags.remove(tag): the first occurrence goes
RECURSIVE RemoveFirst(_, _)
RemoveFirst(tags, tag) ==
    IF tags = << >> THEN << >>
    ELSE IF Head(tags) = tag THEN Tail(tags)
    ELSE <<Head(tags)>> \o RemoveFirst(Tail(tags), tag)

\* a tag_add that appends without looking
TagAppendAlways(o, tag) == [o EXCEPT !.tags = Append(@, tag)]

\* if tag not in stream.tags: stream.tags.append(tag)
TagAddStream(o, tag) ==
    IF In(tag, o.tags) THEN o ELSE [o EXCEPT !.tags = Append(@, tag)]

\* if tag in stream.tags: stream.tags.remove(tag)
TagRemoveStream(o, tag) ==
    IF In(tag, o.tags) THEN [o EXCEPT !.tags = RemoveFirst(@, tag)] ELSE o

\* for stream in self, from the i-th stream on
RECURSIVE TagAddLoop(_, _, _, _)
TagAddLoop(h, refs, tag, i) ==
    IF i > Len(refs) THEN h
    ELSE TagAddLoop([h EXCEPT ![refs[i]] = TagAddStream(h[refs[i]], tag)],
                    refs, tag, i + 1)

RECURSIVE TagRemoveLoop(_, _, _, _)
TagRemoveLoop(h, refs, tag, i) ==
    IF i > Len(refs) THEN h
    ELSE TagRemoveLoop([h EXCEPT ![refs[i]] = TagRemoveStream(h[refs[i]], tag)],
                       refs, tag, i + 1)

\* a check that lets every argument through
IsAnything(tag) == TRUE

\* type(tag) in [str, unicode]
IsString(tag) == tag.type \in {"str", "unicode"}

\* the history of the tag calls after a call on tag
Logged(tag, call) ==
    IF tag.value \in DOMAIN tagLog
    THEN [tagLog EXCEPT ![tag.value] = call]
    ELSE tagLog

\* Dataset.tag_add(tag)
TagAdd ==
    /\ \E tag \in TagArgs :
        /\ op' = <<[name |-> "tag_add", tag |-> tag]>>
        /\ IF ~IsString(tag)
           THEN /\ raised' = "TypeError"
                /\ UNCHANGED <<heap, tagLog>>
           ELSE /\ raised' = "none"
                /\ heap' = TagAddLoop(heap, self, tag.value, 1)
                /\ tagLog' = Logged(tag, "add")
    /\ out' = Unset
    /\ snap' = heap
    /\ prev' = self
    /\ emitted' = << >>
    /\ UNCHANGED <<self, self_id, calls, warnings>>
    /\ UNCHANGED gridVars
    /\ UNCHANGED maxVars
    /\ UNCHANGED graphicsVars

\* Dataset.tag_remove(tag)
TagRemove ==
    /\ \E tag \in TagArgs :
        /\ op' = <<[name |-> "tag_remove", tag |-> tag]>>
        /\ heap' = TagRemoveLoop(heap, self, tag.value, 1)
        /\ tagLog' = Logged(tag, "remove")
    /\ raised' = "none"
    /\ out' = Unset
    /\ snap' = heap
    /\ prev' = self
    /\ emitted' = << >>
    /\ UNCHANGED <<self, self_id, calls, warnings>>
    /\ UNCHANGED gridVars
    /\ UNCHANGED maxVars
    /\ UNCHANGED graphicsVars

\* the calls made on the Dataset that select returned
ReturnedCalls == {"returned.tag_add", "returned.tag_remove", "returned.append"}

\* select has returned a Dataset, and the caller still holds it
HasReturned ==
    IF op = Unset \/ out = Unset THEN FALSE
    ELSE op[1].name \in {"select"} \cup ReturnedCalls

\* the tags the caller hands to the returned Dataset
ReturnedTagArgs == {t \in TagArgs : t.value \in {"a", "5"} /\ t.type # "unicode"}

\* tag_add(tag) called on the Dataset select returned
TagAddReturned ==
    /\ HasReturned
    /\ \E tag \in ReturnedTagArgs :
        /\ op' = <<[name |-> "returned.tag_add", tag |-> tag]>>
        /\ IF ~IsString(tag)
           THEN /\ raised' = "TypeError"
                /\ UNCHANGED heap
           ELSE /\ raised' = "none"
                /\ heap' = TagAddLoop(heap, out[1].streams, tag.value, 1)
    /\ snap' = heap
    /\ prev' = self
    /\ emitted' = << >>
    /\ UNCHANGED <<self, self_id, out, calls, warnings, tagLog>>
    /\ UNCHANGED gridVars
    /\ UNCHANGED maxVars
    /\ UNCHANGED graphicsVars

\* tag_remove(tag) called on the Dataset select returned
TagRemoveReturned ==
    /\ HasReturned
    /\ \E tag \in ReturnedTagArgs :
        /\ op' = <<[name |-> "returned.tag_remove", tag |-> tag]>>
        /\ heap' = TagRemoveLoop(heap, out[1].streams, tag.value, 1)
    /\ raised' = "none"
    /\ snap' = heap
    /\ prev' = self
    /\ emitted' = << >>
    /\ UNCHANGED <<self, self_id, out, calls, warnings, tagLog>>
    /\ UNCHANGED gridVars
    /\ UNCHANGED maxVars
    /\ UNCHANGED graphicsVars

\* append(stream) called on the Dataset select returned, with a stream the
\* reader has just created (one such stream in a run)
AppendReturned ==
    /\ HasReturned
    /\ Len(out[1].streams) < MaxStreams
    /\ Len(heap) <= Len(self)
    /\ LET stream == CHOOSE o \in ReaderStreams :
                         o.station = 1 /\ o.origin = 1 IN
        /\ op' = <<[name |-> "returned.append"]>>
        /\ heap' = Append(heap, AppendAttributes(stream))
        /\ emitted' = AppendWarnings(stream)
    /\ out' = <<[out[1] EXCEPT !.streams = Append(@, Len(heap) + 1)]>>
    /\ raised' = "none"
    /\ snap' = heap
    /\ prev' = self
    /\ UNCHANGED <<self, self_id, calls, warnings, tagLog>>
    /\ UNCHANGED gridVars
    /\ UNCHANGED maxVars
    /\ UNCHANGED graphicsVars

\* the loop of get_stations from the i-th stream on: stream.station raises
\* AttributeError on a stream without station metadata
RECURSIVE StationsLoop(_, _, _, _)
StationsLoop(h, refs, i, stations) ==
    IF i > Len(refs) THEN [stations |-> stations, raised |-> FALSE]
    ELSE IF h[refs[i]].station = 0
         THEN [stations |-> stations, raised |-> TRUE]
         ELSE StationsLoop(h, refs, i + 1,
                           Append(stations, h[refs[i]].station))

\* Dataset.get_stations()
GetStations ==
    /\ op' = <<[name |-> "get_stations"]>>
    /\ LET loop == StationsLoop(heap, self, 1, << >>) IN
       IF loop.raised THEN Raise("AttributeError")
       ELSE /\ raised' = "none"
            /\ out' = <<loop.stations>>
    /\ snap' = heap
    /\ prev' = self
    /\ emitted' = << >>
    /\ UNCHANGED <<heap, self, self_id, calls, warnings, tagLog>>
    /\ UNCHANGED gridVars
    /\ UNCHANGED maxVars
    /\ UNCHANGED graphicsVars

\* a test with == in the place of !=
SameAsFirst(h, refs, i) == h[refs[i]].origin = h[refs[1]].origin

\* stream.origin!=self[0].origin
DiffersFromFirst(h, refs, i) == h[refs[i]].origin # h[refs[1]].origin

\* the loop of get_origins from the i-th stream on, with the value of
\* getattr(self, '_warnings', True): the origins gathered,
\* the warnings emitted, and whether stream.origin raised AttributeError
RECURSIVE OriginsLoop(_, _, _, _, _, _)
OriginsLoop(h, refs, enabled, i, origins, warned) ==
    IF i > Len(refs) THEN
        [origins |-> origins, warnings |-> warned, raised |-> FALSE]
    ELSE IF h[refs[i]].origin = 0 THEN
        [origins |-> origins, warnings |-> warned, raised |-> TRUE]
    ELSE OriginsLoop(h, refs, enabled, i + 1,
                     Append(origins, h[refs[i]].origin),
                     IF enabled /\ DiffersFromFirst(h, refs, i)
                     THEN Append(warned, "Different streams in the Dataset correpond to different events.")
                     ELSE warned)

\* Dataset.get_origins()
GetOrigins ==
    /\ \E enabled \in BOOLEAN :
       LET loop == OriginsLoop(heap, self, enabled, 1, << >>, << >>) IN
        /\ op' = <<[name |-> "get_origins", enabled |-> enabled]>>
        /\ emitted' = loop.warnings
        /\ IF loop.raised THEN Raise("AttributeError")
           ELSE /\ raised' = "none"
                /\ out' = <<loop.origins>>
    /\ snap' = heap
    /\ prev' = self
    /\ UNCHANGED <<heap, self, self_id, calls, warnings, tagLog>>
    /\ UNCHANGED gridVars
    /\ UNCHANGED maxVars
    /\ UNCHANGED graphicsVars

\* a Dataset the reader has not filled yet, its id one of ids
InitDataset(ids) ==
    /\ heap = << >>
    /\ self = << >>
    /\ self_id \in ids
    /\ op = Unset
    /\ out = Unset
    /\ calls = << >>
    /\ snap = << >>
    /\ warnings = << >>
    /\ raised = "none"
    /\ prev = << >>
    /\ tagLog = NoTagCalls
    /\ emitted = << >>
    /\ surface = Unset
    /\ misfit = Unset
    /\ reduction = Unset
    /\ stream_dat = << >>
    /\ stream_syn = << >>
    /\ figure = Unset
    /\ ds = << >>
    /\ max_all = Unset
    /\ nproc = 1
    /\ npts = 1
    /\ scheme = "contiguous"
    /\ profile = 0
    /\ pc = [r \in Ranks |-> "idle"]
    /\ data = [r \in Ranks |-> None]
    /\ greens = [r \in Ranks |-> "empty"]
    /\ bcastData = None
    /\ bcastGreens = None
    /\ results = [r \in Ranks |-> EmptyResults]
    /\ sent = [r \in Ranks |-> Unset]
    /\ results_unsorted = Unset
    /\ merged = Unset
    /\ best_misfit = Unset
    /\ best_mt = Unset
    /\ evals = [i \in 0..(npts - 1) |-> << >>]

InitOps == InitDataset({"event"})

\* the source has an id, or the default id None
InitReturn == InitDataset({"event", None})

NextOps ==
    \/ AppendCall
    \/ AppendNonStream
    \/ SelectDataset
    \/ SortByDistance
    \/ SortByAzimuth
    \/ SortByFunction
    \/ GetStations
    \/ GetOrigins

SpecOps == InitOps /\ [][NextOps]_vars

NextTags ==
    \/ AppendCall
    \/ TagAdd
    \/ TagRemove

SpecTags == InitOps /\ [][NextTags]_vars

\* the calls on the source and on the Dataset select returned
NextSelect ==
    \/ AppendCall
    \/ SelectDataset
    \/ TagAddReturned
    \/ TagRemoveReturned
    \/ AppendReturned

SpecSelect == InitOps /\ [][NextSelect]_vars

\* the calls that return a Dataset made from the source
NextReturn ==
    \/ AppendCall
    \/ MapDataset
    \/ ApplyDataset
    \/ SelectDataset

SpecReturn == InitReturn /\ [][NextReturn]_vars

(***************************************************************************)
(* mtuq/graphics/waveform.py: the body-wave and the surface-wave loop of   *)
(* plot_data_synthetics over the traces of one station.                    *)
(***************************************************************************)
\* channel codes, as the sequences of their characters
DataChannels == {<<"B", "H", "Z">>, <<"b", "h", "r">>, <<"B", "H", "T">>}

SyntheticChannels == {<<"H", "H", "Z">>, <<"B", "H", "R">>, <<"b", "h", "t">>}

\* the weight attribute of a data trace: missing, 0. or 1.
Weights == {Unset, <<0>>, <<1>>}

DataTraces == [channel : DataChannels, weight : Weights]

SyntheticTraces == [channel : SyntheticChannels]

\* str.upper() of one character
Upper(c) ==
    CASE c = "b" -> "B"
      [] c = "h" -> "H"
      [] c = "z" -> "Z"
      [] c = "r" -> "R"
      [] c = "t" -> "T"
      [] OTHER -> c

\* getattr(dat, 'weight', 1.)
WeightOf(dat) == IF dat.weight = Unset THEN 1 ELSE dat.weight[1]

\* a gate that lets traces of weight zero through
NeverZero(weight) == FALSE

\* weight==0.
IsZero(weight) == weight = 0

\* trace.stats.channel[-1].upper()
Component(trace) == Upper(trace.channel[Len(trace.channel)])

\* the column of the figure the component is plotted in; 0 when the loop
\* has no column for it
Axis(wave, component) ==
    IF wave = "body" THEN
        CASE component = "Z" -> 1
          [] component = "R" -> 2
          [] OTHER -> 0
    ELSE
        CASE component = "Z" -> 3
          [] component = "R" -> 4
          [] component = "T" -> 5
          [] OTHER -> 0

\* zip(stream_dat, stream_syn): as many pairs as the shorter stream has
Zipped == IF Len(stream_dat) < Len(stream_syn)
          THEN Len(stream_dat) ELSE Len(stream_syn)

NoFigure == [plotted |-> << >>, labelled |-> << >>, warnings |-> << >>,
             warned |-> << >>]

\* for dat, syn in zip(stream_dat, stream_syn), from the i-th pair on
RECURSIVE WaveLoop(_, _, _, _)
WaveLoop(wave, trace_labels, i, fig) ==
    IF i > Zipped THEN fig
    ELSE LET dat == stream_dat[i]
             syn == stream_syn[i]
             component == Component(dat)
             weight == WeightOf(dat)
         IN  IF component # Component(syn) THEN
                 WaveLoop(wave, trace_labels, i + 1,
                     [fig EXCEPT
                        !.warnings = Append(@, "Mismatched components, skipping..."),
                        !.warned = Append(@, i)])
             ELSE IF IsZero(weight) THEN
                 WaveLoop(wave, trace_labels, i + 1, fig)
             ELSE IF Axis(wave, component) = 0 THEN
                 WaveLoop(wave, trace_labels, i + 1, fig)
             ELSE
                 WaveLoop(wave, trace_labels, i + 1,
                     [fig EXCEPT
                        !.plotted = Append(@, [pair |-> i,
                                               axis |-> Axis(wave, component)]),
                        !.labelled = IF trace_labels THEN Append(@, i) ELSE @])

\* the processing chain hands over one more data trace and its synthetic
AddPair ==
    /\ figure = Unset
    /\ Len(stream_dat) < MaxPairs
    /\ \E dat \in DataTraces, syn \in SyntheticTraces :
        /\ stream_dat' = Append(stream_dat, dat)
        /\ stream_syn' = Append(stream_syn, syn)
    /\ UNCHANGED <<surface, misfit, reduction, figure>>
    /\ UNCHANGED gridVars
    /\ UNCHANGED maxVars
    /\ UNCHANGED dataVars

\* one loop of plot_data_synthetics over the station's traces
PlotWaves(wave) ==
    /\ figure = Unset
    /\ \E trace_labels \in BOOLEAN :
        figure' = <<[wave |-> wave, trace_labels |-> trace_labels,
                     did |-> WaveLoop(wave, trace_labels, 1, NoFigure)]>>
    /\ UNCHANGED <<surface, misfit, reduction, stream_dat, stream_syn>>
    /\ UNCHANGED gridVars
    /\ UNCHANGED maxVars
    /\ UNCHANGED dataVars

PlotBodyWaves == PlotWaves("body")

PlotSurfaceWaves == PlotWaves("surface")

NextWaveform ==
    \/ AddPair
    \/ PlotBodyWaves
    \/ PlotSurfaceWaves

SpecWaveform == InitOps /\ [][NextWaveform]_vars

(***************************************************************************)
(* mtuq/graphics/uq/depth.py: plot_misfit_depth, plot_likelihood_depth and *)
(* plot_marginal_depth over a misfit surface.  The surface is the array    *)
(* values[m][k]: m the flat index of a source within a depth slice, k the  *)
(* position on the last axis (the depth).  A float is a natural number of  *)
(* units, or NaN; a normalized surface keeps its numerators and their      *)
(* common denominator.                                                     *)
(***************************************************************************)
\* the float nan
NaN == -1

\* the misfit values of a surface: multiples of every 2*sigma^2 in use
MisfitValues == {0, 16}

\* sigma as the caller passes it: not at all (None), or a number
Sigmas == {Unset} \cup {<<v>> : v \in 0..2}

ArrayTypes == {"DataArray", "MTUQDataArray"}

FrameTypes == {"DataFrame", "MTUQDataFrame"}

SurfaceTypes == ArrayTypes \cup FrameTypes \cup {"ndarray"}

Matrices == UNION {[1..n -> [Depths -> MisfitValues]] : n \in 1..MaxSources}

\* the surfaces a caller may hold: arrays of every content, and one
\* surface of every other type
Surfaces ==
    [type : {"DataArray"}, values : Matrices, den : {1}]
        \cup [type : SurfaceTypes \ {"DataArray"},
              values : {[m \in 1..1 |-> [k \in Depths |-> 16 * (k % 2)]]},
              den : {1}]

\* _check(ds): whether it raises TypeError
Check(type) ==
    type \notin {"DataArray", "DataFrame", "MTUQDataArray", "MTUQDataFrame"}

\* issubclass(type(ds), DataArray)
IsDataArray(type) == type \in ArrayTypes

\* issubclass(type(ds), DataFrame)
IsDataFrame(type) == type \in FrameTypes

\* a test of sigma that lets None through
SigmaNeverMissing(sigma) == FALSE

\* assert sigma is not None: whether it raises
SigmaMissing(sigma) == sigma = Unset

\* a function that goes on with the caller's own object
DsAlias(surf) ==
    [type |-> surf.type, values |-> surf.values, den |-> surf.den, shared |-> TRUE]

\* ds = ds.copy(): the local name is bound to a new object
DsCopy(surf) ==
    [type |-> surf.type, values |-> surf.values, den |-> surf.den, shared |-> FALSE]

\* np.exp(-misfit/(2.*sigma**2)), in units of 2^-MaxExponent and with
\* powers of 1/2 for powers of 1/e (a rescaling of sigma): sigma = 0 gives
\* exp(-inf) = 0, or exp(nan) = nan for a misfit of 0; a large exponent
\* underflows to 0
Likelihood(m, sigma) ==
    IF sigma = 0 THEN (IF m = 0 THEN NaN ELSE 0)
    ELSE LET x == m \div (2 * sigma * sigma) IN
         IF x > MaxExponent THEN 0 ELSE 2 ^ (MaxExponent - x)

Transform(values, sigma) ==
    [m \in DOMAIN values |->
        [k \in DOMAIN values[m] |-> Likelihood(values[m][k], sigma)]]

\* the sum of floats: nan as soon as one of them is nan
RECURSIVE SumFloats(_)
SumFloats(a) ==
    IF a = << >> THEN 0
    ELSE LET rest == SumFloats(Tail(a)) IN
         IF Head(a) = NaN \/ rest = NaN THEN NaN ELSE Head(a) + rest

\* ds.sum() over the whole surface
SumSurface(values) ==
    SumFloats([m \in DOMAIN values |-> SumFloats(values[m])])

\* ds /= ds.sum(): a total of 0 or nan leaves nan everywhere
Normalize(values) ==
    LET total == SumSurface(values) IN
    IF total = NaN \/ total = 0
    THEN [values |-> [m \in DOMAIN values |->
                         [k \in DOMAIN values[m] |-> NaN]],
          den |-> 1]
    ELSE [values |-> values, den |-> total]

\* values /= values.sum() of the profile over depth
Renormalize(values) ==
    LET total == SumFloats(values) IN
    IF total = NaN \/ total = 0
    THEN [values |-> [k \in DOMAIN values |-> NaN], den |-> 1]
    ELSE [values |-> values, den |-> total]

\* ds[:,:,:,:,:,:,_i], flattened
Sliced(values, k) == [m \in DOMAIN values |-> values[m][k]]

RECURSIVE SeqMax(_)
SeqMax(a) == IF Len(a) = 1 THEN a[1] ELSE Max2(a[1], SeqMax(Tail(a)))

\* argmax(): the first position of the maximum, 0-based
RECURSIVE ArgMaxScan(_, _, _)
ArgMaxScan(a, k, best) ==
    IF k > Len(a) THEN best - 1
    ELSE ArgMaxScan(a, k + 1, IF a[k] > a[best] THEN k ELSE best)

ArgMax(a) == ArgMaxScan(a, 2, 1)

\* a reduction that keeps the last position of the minimum of a slice
MinDataArrayLast(values) ==
    [values |-> [k \in Depths |-> SeqMin(Sliced(values, k))],
     indices |-> [k \in Depths |-> ArgMinLast(Sliced(values, k))]]

\* _min_dataarray(ds): per position of the last axis, the minimum of the
\* slice and its flat index
MinDataArray(values) ==
    [values |-> [k \in Depths |-> SeqMin(Sliced(values, k))],
     indices |-> [k \in Depths |-> ArgMin(Sliced(values, k))]]

\* _max_dataarray(ds)
MaxDataArray(values) ==
    [values |-> [k \in Depths |-> SeqMax(Sliced(values, k))],
     indices |-> [k \in Depths |-> ArgMax(Sliced(values, k))]]

\* a table reduction that returns nothing instead of raising
MinDataFrameEmpty(values) == "none"

\* _min_dataframe(ds): raise NotImplementedError
MinDataFrame(values) == "NotImplementedError"

\* what a call did when it raised
Failed(surf, steps, exception) ==
    [steps |-> steps, raised |-> exception, likelihood |-> Unset,
     profile |-> Unset, indices |-> Unset, saved |-> FALSE, caller |-> surf]

\* what a call did when it went through to pyplot.savefig(filename)
Saved(surf, steps, likelihood, curve, indices) ==
    [steps |-> Append(steps, "plot"), raised |-> "none",
     likelihood |-> likelihood, profile |-> <<curve>>,
     indices |-> <<indices>>, saved |-> TRUE, caller |-> surf]

\* the caller's surface after ds.values = ... on the local object
Written(surf, local, lik) ==
    IF local.shared
    THEN [type |-> surf.type, values |-> lik.values, den |-> lik.den]
    ELSE surf

\* the body of plot_misfit_depth
MisfitDepth(surf) ==
    IF Check(surf.type) THEN Failed(surf, <<"get_depths", "check">>, "TypeError")
    ELSE LET local == DsCopy(surf)
             steps == <<"get_depths", "check", "copy">>
         IN  IF IsDataArray(local.type) THEN
                 LET r == MinDataArray(local.values) IN
                 Saved(surf, steps \o <<"reduce", "get_sources">>, Unset,
                       [values |-> r.values, den |-> local.den], r.indices)
             ELSE IF IsDataFrame(local.type) THEN
                 IF MinDataFrame(local.values) # "none"
                 THEN Failed(surf, steps, MinDataFrame(local.values))
                 ELSE Failed(surf, steps \o <<"get_sources">>, "TypeError")
             ELSE Failed(surf, steps, "UnboundLocalError")

\* the end of both likelihood plots, from the reduction of the normalized
\* surface on: the reduction of a surface of nan raises or returns nan,
\* as the array library has it
ReduceLikelihood(surf, steps, lik, r, nanRaises) ==
    IF lik.values[1][1] = NaN /\ nanRaises
    THEN [Failed(surf, steps, "ValueError") EXCEPT !.likelihood = <<lik>>]
    ELSE Saved(surf, steps \o <<"reduce", "get_sources", "renormalize">>,
               <<lik>>, Renormalize(r.values), r.indices)

\* the body of plot_likelihood_depth
LikelihoodDepth(surf, sigma, nanRaises) ==
    IF SigmaMissing(sigma) THEN Failed(surf, << >>, "AssertionError")
    ELSE IF Check(surf.type)
    THEN Failed(surf, <<"get_depths", "check">>, "TypeError")
    ELSE LET local == DsCopy(surf)
             steps == <<"get_depths", "check", "copy">>
         IN  IF ~IsDataArray(local.type) /\ ~IsDataFrame(local.type)
             THEN Failed(surf, steps, "UnboundLocalError")
             ELSE IF sigma = Unset THEN Failed(surf, steps, "TypeError")
             ELSE IF IsDataArray(local.type) THEN
                 LET lik == Normalize(Transform(local.values, sigma[1])) IN
                 ReduceLikelihood(Written(surf, local, lik),
                                  steps \o <<"transform", "normalize">>,
                                  lik, MinDataArray(lik.values), nanRaises)
             ELSE
                 LET done == steps \o <<"transform", "normalize">> IN
                 IF MinDataFrame(local.values) # "none"
                 THEN Failed(surf, done, MinDataFrame(local.values))
                 ELSE Failed(surf, done \o <<"get_sources">>, "TypeError")

\* the body of plot_marginal_depth
MarginalDepth(surf, sigma, nanRaises) ==
    IF SigmaMissing(sigma) THEN Failed(surf, << >>, "AssertionError")
    ELSE IF Check(surf.type)
    THEN Failed(surf, <<"get_depths", "check">>, "TypeError")
    ELSE LET local == DsCopy(surf)
             steps == <<"get_depths", "check", "copy">>
         IN  IF IsDataArray(local.type) THEN
                 IF sigma = Unset THEN Failed(surf, steps, "TypeError")
                 ELSE LET lik == Normalize(Transform(local.values, sigma[1]))
                      IN  ReduceLikelihood(surf,
                              steps \o <<"transform", "normalize">>,
                              lik, MaxDataArray(lik.values), nanRaises)
             ELSE IF IsDataFrame(local.type)
             THEN Failed(surf, steps, "NotImplementedError")
             ELSE Failed(surf, steps, "UnboundLocalError")

\* the grid search hands its misfit surface to the caller
NewSurface ==
    /\ surface = Unset
    /\ \E surf \in Surfaces :
        /\ surface' = <<surf>>
        /\ misfit' = <<surf.values>>
    /\ UNCHANGED <<reduction, stream_dat, stream_syn, figure>>
    /\ UNCHANGED gridVars
    /\ UNCHANGED maxVars
    /\ UNCHANGED dataVars

\* a call of one of the three functions on the caller's surface
Reduction(name, sigma, did) ==
    /\ reduction' = <<[name |-> name, sigma |-> sigma, steps |-> did.steps,
                       raised |-> did.raised, likelihood |-> did.likelihood,
                       profile |-> did.profile, indices |-> did.indices,
                       saved |-> did.saved]>>
    /\ surface' = <<did.caller>>
    /\ UNCHANGED <<misfit, stream_dat, stream_syn, figure>>
    /\ UNCHANGED gridVars
    /\ UNCHANGED maxVars
    /\ UNCHANGED dataVars

PlotMisfitDepth ==
    /\ surface # Unset
    /\ Reduction("plot_misfit_depth", Unset, MisfitDepth(surface[1]))

PlotLikelihoodDepth ==
    /\ surface # Unset
    /\ \E sigma \in Sigmas, nanRaises \in BOOLEAN :
        Reduction("plot_likelihood_depth", sigma,
                  LikelihoodDepth(surface[1], sigma, nanRaises))

PlotMarginalDepth ==
    /\ surface # Unset
    /\ \E sigma \in Sigmas, nanRaises \in BOOLEAN :
        Reduction("plot_marginal_depth", sigma,
                  MarginalDepth(surface[1], sigma, nanRaises))

NextDepth ==
    \/ NewSurface
    \/ PlotMisfitDepth
    \/ PlotLikelihoodDepth
    \/ PlotMarginalDepth

SpecDepth == InitOps /\ [][NextDepth]_vars

(***************************************************************************)
(* Properties of the driver.                                               *)
(***************************************************************************)
GridIndices == 0..(npts - 1)

\* where the chunk of rank r starts in the concatenation (0-based)
RECURSIVE ChunkOffset(_)
ChunkOffset(r) ==
    IF r = 0 THEN 0 ELSE ChunkOffset(r - 1) + Len(Chunk(r - 1))

\* the lowest grid index whose score at depth d is the smallest of the grid
LowestBestIndex(d) ==
    CHOOSE i \in GridIndices :
        /\ \A j \in GridIndices : Score(profile, d, i) <= Score(profile, d, j)
        /\ \A j \in 0..(i - 1) : Score(profile, d, j) > Score(profile, d, i)

\* the lowest position of a vector that holds its smallest entry (0-based)
LowestMinPosition(s) ==
    CHOOSE i \in 0..(Len(s) - 1) :
        /\ \A j \in 1..Len(s) : s[i + 1] <= s[j]
        /\ \A j \in 1..i : s[j] > s[i + 1]

C3_BestFitLowestIndex ==
    best_mt # Unset =>
        \A d \in Depths :
            /\ best_mt[d] = GridGet(LowestMinPosition(merged[d]))
            /\ best_misfit[d] = merged[d][LowestMinPosition(merged[d]) + 1]

C3_Witness ==
    /\ best_mt # Unset
    /\ \E d \in Depths :
        /\ Len(merged[d]) = 6
        /\ merged[d][3] = merged[d][6]
        /\ \A j \in 1..6 : merged[d][3] <= merged[d][j]
        /\ merged[d][1] > merged[d][3] /\ merged[d][2] > merged[d][3]
        /\ best_mt[d] = GridGet(2)

C5_SyncPoints ==
    /\ \A r \in Ranks :
        (pc[r] = "search" \/ Len(results[r][1]) > 0) =>
            (data[r] = "processed" /\ greens[r] = "full")
    /\ \A r \in Ranks \ {0} :
        /\ pc[r] = "bcast_data" => (data[r] = None /\ greens[r] = "empty")
        /\ pc[r] = "bcast_greens" => greens[r] = "empty"
    /\ merged # Unset =>
        \A r \in Ranks :
            /\ Len(results[r][1]) = Len(Chunk(r))
            /\ pc[r] \notin {"bcast_data", "bcast_greens", "search", "failed"}

C5_Witness ==
    \E r \in Ranks \ {0} : \E q \in Ranks :
        /\ Len(results[r][1]) > 0
        /\ pc[q] = "bcast_data"

(***************************************************************************)
(* Properties of Dataset.max().                                            *)
(***************************************************************************)
\* the traces of a Dataset, with their places
TracePlaces(d) ==
    {p \in (1..Len(d)) \X (1..MaxTraces) : p[2] <= Len(d[p[1]])}

\* the traces whose weight attribute is present and zero
ZeroWeight(trace) == trace.hasWeight /\ trace.weight = 0

\* the absolute sample values of the traces that are not of zero weight
WeightedAmplitudes(d) ==
    UNION {{Abs(d[p[1]][p[2]].data[k]) : k \in 1..Len(d[p[1]][p[2]].data)} :
        p \in {q \in TracePlaces(d) : ~ZeroWeight(d[q[1]][q[2]])}}

\* the Dataset without its traces of zero weight
RemoveZeroWeight(d) ==
    [i \in 1..Len(d) |-> SelectSeq(d[i], LAMBDA t : ~ZeroWeight(t))]

\* the Dataset with weight 1 written on every trace that has no weight
WithDefaultWeight(d) ==
    [i \in 1..Len(d) |->
        [j \in 1..Len(d[i]) |->
            IF d[i][j].hasWeight THEN d[i][j]
            ELSE [d[i][j] EXCEPT !.hasWeight = TRUE, !.weight = 1]]]

\* C8: max() is the largest absolute sample value over the traces that are
\* not of zero weight (and -inf when there is none)
C8_MaxIsMaxAbsolute ==
    max_all # Unset =>
        /\ WeightedAmplitudes(ds) = {} => max_all[1] = NegInf
        /\ WeightedAmplitudes(ds) # {} =>
            /\ max_all[1] \in WeightedAmplitudes(ds)
            /\ \A a \in WeightedAmplitudes(ds) : a <= max_all[1]

\* C9: max() is max() of the same Dataset without its zero-weight traces,
\* and a trace without a weight counts as a trace of weight 1
C9_ZeroWeightNeverContributes ==
    max_all # Unset =>
        /\ max_all[1] = Max(RemoveZeroWeight(ds))
        /\ max_all[1] = Max(WithDefaultWeight(ds))

C9_Witness ==
    /\ max_all = <<0>>
    /\ \E p \in TracePlaces(ds) :
        /\ ZeroWeight(ds[p[1]][p[2]])
        /\ AbsDataMax(ds[p[1]][p[2]].data) = 1
    /\ \E p \in TracePlaces(ds) : ~ds[p[1]][p[2]].hasWeight

\* C10: max() is -inf on the empty Dataset and on a Dataset whose traces
\* are all of zero weight, and is >= 0 as soon as one trace is not
C10_EmptyIsNegInf ==
    max_all # Unset =>
        /\ ds = << >> => max_all[1] = NegInf
        /\ (\A p \in TracePlaces(ds) : ZeroWeight(ds[p[1]][p[2]])) =>
            max_all[1] = NegInf
        /\ (\E p \in TracePlaces(ds) : ~ZeroWeight(ds[p[1]][p[2]])) =>
            max_all[1] >= 0

C10_Witness ==
    /\ max_all # Unset
    /\ \E p \in TracePlaces(ds) : ZeroWeight(ds[p[1]][p[2]])
    /\ \E p \in TracePlaces(ds) :
        /\ ~ZeroWeight(ds[p[1]][p[2]])
        /\ DataMax(ds[p[1]][p[2]].data) < 0

(***************************************************************************)
(* Properties of Dataset.map and Dataset.apply.                            *)
(***************************************************************************)
\* the arguments the i-th call is to receive besides the record
ExpectedArgs(o, i) ==
    IF o.name = "map"
    THEN [k \in 1..Len(o.sequences) |-> o.sequences[k][i]]
    ELSE o.args

\* the samples of f(record, args) for a record of samples v
ExpectedSamples(f, v, args) ==
    IF f = "same" THEN v ELSE (v + 1 + SumSeq(args)) % 3

\* C6: a map / apply that returns gives a Dataset of as many records as the
\* source, the function was called once per record, in order, with the
\* record and its arguments, and element i is what the i-th call returned
C6_MapApplyElementwise ==
    (op # Unset /\ out # Unset) =>
        /\ Len(out[1].streams) = Len(self)
        /\ Len(calls) = Len(self)
        /\ \A i \in 1..Len(self) :
            /\ calls[i].stream = self[i]
            /\ calls[i].args = ExpectedArgs(op[1], i)
            /\ out[1].streams[i] = calls[i].ret
            /\ heap[out[1].streams[i]].samples =
                   ExpectedSamples(op[1].function, snap[self[i]].samples,
                                   ExpectedArgs(op[1], i))

C6_Witness ==
    /\ op # Unset
    /\ out # Unset
    /\ op[1].name = "map"
    /\ Len(self) = 2
    /\ Len(op[1].sequences) = 1
    /\ op[1].sequences[1][1] # op[1].sequences[1][2]

\* C7 as stated: after map / apply the records of the source are as they
\* were, and the returned Dataset holds none of them
C7_DeepCopiesRecords ==
    op # Unset =>
        /\ \A i \in 1..Len(self) : heap[self[i]] = snap[self[i]]
        /\ out # Unset =>
            \A i \in 1..Len(out[1].streams) : \A j \in 1..Len(self) :
                out[1].streams[i] # self[j]

\* C7 as amended: the function is handed the source's record itself; the
\* source is untouched and shares no record with the result when the
\* function returns a copy and leaves its argument alone, and the result
\* holds the source's very records when the function returns its argument
C7_NoCopyIsMade ==
    op # Unset =>
        /\ \A i \in 1..Len(calls) : calls[i].stream = self[i]
        /\ op[1].function = "copy" =>
            /\ \A i \in 1..Len(self) : heap[self[i]] = snap[self[i]]
            /\ out # Unset =>
                \A i \in 1..Len(out[1].streams) : \A j \in 1..Len(self) :
                    out[1].streams[i] # self[j]
        /\ (op[1].function \in {"same", "inplace"} /\ out # Unset) =>
            out[1].streams = self

C7_Witness ==
    /\ op # Unset
    /\ out # Unset
    /\ op[1].function = "copy"
    /\ Len(self) = 2
    /\ \E i \in 1..2 : heap[out[1].streams[i]].samples # heap[self[i]].samples


(***************************************************************************)
(* Properties of Dataset.select, Dataset.append and the identifiers.       *)
(***************************************************************************)
\* the last call was the named operation
Called(name) == IF op = Unset THEN FALSE ELSE op[1].name = name

\* the caller passed a value other than None
Given(c) == c # Unset

\* the records of refs whose metadata equal the criteria that were given
MatchingRecords(h, refs, origin, station) ==
    LET Match(r) ==
            /\ Given(station) => h[r].station # 0 /\ h[r].station = station[1]
            /\ Given(origin) => h[r].origin # 0 /\ h[r].origin = origin[1]
    IN  SelectSeq(refs, Match)

\* C11: select with a criterion returns a new Dataset holding exactly the
\* records of the source that match every criterion given, in the order of
\* the source, and leaves the source's length and order as they were
C11_SelectReturnsMatches ==
    (Called("select") /\ (Given(op[1].origin) \/ Given(op[1].station))) =>
        /\ out # Unset
        /\ raised = "none"
        /\ out[1].streams =
               MatchingRecords(heap, prev, op[1].origin, op[1].station)
        /\ self = prev

\* C12: select with neither criterion fails with ValueError, returns
\* nothing and leaves the source unchanged; a criterion that is not None
\* counts as given, so a call with one is not rejected for lack of criteria
C12_NoCriteriaValueError ==
    Called("select") =>
        /\ (~Given(op[1].origin) /\ ~Given(op[1].station)) =>
            /\ raised = "ValueError"
            /\ out = Unset
            /\ self = prev
            /\ heap = snap
        /\ (Given(op[1].origin) \/ Given(op[1].station)) =>
            raised \notin {"ValueError", "Exception"}

\* C13: append of something that is not a Stream fails with TypeError and
\* leaves the Dataset's length, order and records unchanged
C13_AppendNonStreamTypeError ==
    (Called("append") /\ ~op[1].isStream) =>
        /\ raised = "TypeError"
        /\ self = prev
        /\ heap = snap

\* the Datasets of the state: the source, and the one select returned
Datasets ==
    {self} \cup (IF out # Unset /\ (Called("select") \/ Called("map")
                                     \/ Called("apply"))
                 THEN {out[1].streams} ELSE {})

\* C14: append of a stream without station or without origin metadata does
\* not fail, emits a warning, makes the stream the last element and
\* computes no distance and azimuth; with both it emits no warning and the
\* record has both derived fields, as has every record of a Dataset that
\* has both kinds of metadata
C14_AppendWarnsAndAppends ==
    /\ (Called("append") /\ op[1].isStream) =>
        LET stream == op[1].stream
            last == heap[self[Len(self)]]
        IN  /\ raised = "none"
            /\ Len(self) = Len(prev) + 1
            /\ SubSeq(self, 1, Len(prev)) = prev
            /\ last.station = stream.station
            /\ last.origin = stream.origin
            /\ (stream.station = 0 \/ stream.origin = 0) =>
                /\ Len(emitted) = 1
                /\ last.geo = << >>
            /\ (stream.station # 0 /\ stream.origin # 0) =>
                /\ emitted = << >>
                /\ Len(last.geo) = 2
    /\ \A d \in Datasets : \A i \in 1..Len(d) :
        (heap[d[i]].station # 0 /\ heap[d[i]].origin # 0) =>
            Len(heap[d[i]].geo) = 2

C14_Witness ==
    /\ Called("append")
    /\ op[1].isStream
    /\ Len(self) = 2
    /\ heap[self[1]].station # 0
    /\ heap[self[1]].origin # 0
    /\ heap[self[2]].station # 0
    /\ heap[self[2]].origin = 0

\* 'network.station.location'
ExpectedId(t) == <<t[1], ".", t[2], ".", t[3]>>

SortReturned ==
    /\ Called("sort_by_distance") \/ Called("sort_by_azimuth")
           \/ Called("sort_by_function")
    /\ raised = "none"

\* refs is in the order of the key: ascending, or descending with reverse
InKeyOrder(h, key, refs, reverse) ==
    \A i, j \in 1..Len(refs) : i < j =>
        IF reverse THEN KeyOf(h[refs[i]], key) >= KeyOf(h[refs[j]], key)
        ELSE KeyOf(h[refs[i]], key) <= KeyOf(h[refs[j]], key)

\* where the record r is in refs
PositionIn(refs, r) == CHOOSE i \in 1..Len(refs) : refs[i] = r

\* records of equal key are in after in the order they have in before
TiesKeepOrder(h, key, before, after) ==
    \A i, j \in 1..Len(after) :
        (i < j /\ KeyOf(h[after[i]], key) = KeyOf(h[after[j]], key)) =>
            PositionIn(before, after[i]) < PositionIn(before, after[j])

\* the same records, each as often
SameRecords(before, after) ==
    /\ Len(before) = Len(after)
    /\ \A r \in 1..Len(heap) :
        Cardinality({i \in 1..Len(before) : before[i] = r}) =
            Cardinality({i \in 1..Len(after) : after[i] = r})

\* C16: sort_by_distance() of a Dataset in distance order changes nothing;
\* after sort_by_distance(reverse=True) of such a Dataset,
\* sort_by_distance() gives back the starting order, ties included; and
\* every sort leaves the records what they were
C16_SortByDistanceIdempotent ==
    /\ (Called("sort_by_distance") /\ raised = "none"
            /\ InKeyOrder(heap, "distance", prev, FALSE)) =>
        IF op[1].reverse
        THEN ListSort(heap, "distance", self, FALSE) = prev
        ELSE self = prev
    /\ SortReturned => SameRecords(prev, self) /\ heap = snap

C16_Witness ==
    /\ Called("sort_by_distance")
    /\ raised = "none"
    /\ op[1].reverse
    /\ Len(self) = 2
    /\ InKeyOrder(heap, "distance", prev, FALSE)
    /\ self # prev

\* C17: after a sort the records are in the order of the key, ascending,
\* or descending with reverse, and records of equal key are in the order
\* they had before the call, for both values of reverse
C17_StableSort ==
    SortReturned =>
        /\ InKeyOrder(heap, op[1].key, self, op[1].reverse)
        /\ TiesKeepOrder(heap, op[1].key, prev, self)

C17_Witness ==
    /\ Called("sort_by_azimuth")
    /\ raised = "none"
    /\ op[1].reverse
    /\ Len(self) = 2
    /\ heap[self[1]].station # heap[self[2]].station
    /\ KeyOf(heap[self[1]], "azimuth") = KeyOf(heap[self[2]], "azimuth")


(***************************************************************************)
(* Properties of the tags.                                                 *)
(***************************************************************************)
\* the tags of the list other than tag, in their order
OtherTags(tags, tag) ==
    LET Other(t) == t # tag IN SelectSeq(tags, Other)

\* C18: no record's tags hold a tag twice; a tag is in every record iff the
\* last call on it was tag_add; a tag_add of a tag every record has, and a
\* tag_remove of a tag no record has, change nothing, so that the call made
\* twice is the call made once; and a call leaves the other tags alone
C18_TagsAreSets ==
    /\ \A i \in 1..Len(self) :
        LET tags == heap[self[i]].tags IN
        /\ \A j, k \in 1..Len(tags) : j # k => tags[j] # tags[k]
        /\ \A t \in DOMAIN tagLog : In(t, tags) <=> tagLog[t] = "add"
    /\ Called("tag_add") /\ raised = "none" =>
        /\ (\A i \in 1..Len(self) : In(op[1].tag.value, snap[self[i]].tags))
               => heap = snap
        /\ TagAddLoop(heap, self, op[1].tag.value, 1) = heap
    /\ Called("tag_remove") =>
        /\ (\A i \in 1..Len(self) : ~In(op[1].tag.value, snap[self[i]].tags))
               => heap = snap
        /\ TagRemoveLoop(heap, self, op[1].tag.value, 1) = heap
    /\ (Called("tag_add") \/ Called("tag_remove")) =>
        \A i \in 1..Len(self) :
            OtherTags(heap[self[i]].tags, op[1].tag.value) =
                OtherTags(snap[self[i]].tags, op[1].tag.value)

C18_Witness ==
    /\ Called("tag_add")
    /\ raised = "none"
    /\ op[1].tag.value = "a"
    /\ Len(self) = 2
    /\ tagLog["b"] = "add"
    /\ \A i \in 1..2 : In("a", snap[self[i]].tags)

\* C19: tag_add of a tag that is not a string fails with TypeError and
\* leaves the tags of every record as they were; tag_add of a string does
\* not fail
C19_TagAddTypeError ==
    Called("tag_add") =>
        IF op[1].tag.type \in {"str", "unicode"}
        THEN raised = "none"
        ELSE /\ raised = "TypeError"
             /\ heap = snap
             /\ self = prev

C19_Witness ==
    /\ Called("tag_add")
    /\ op[1].tag.type = "int"
    /\ Len(self) = 2
    /\ \A i \in 1..2 : heap[self[i]].tags # << >>

(***************************************************************************)
(* Properties of get_origins and get_stations.                             *)
(***************************************************************************)
\* every record of the source has origin metadata
AllHaveOrigin == \A i \in 1..Len(self) : heap[self[i]].origin # 0

AllHaveStation == \A i \in 1..Len(self) : heap[self[i]].station # 0

\* some record's origin is not the first record's
MixedOrigins ==
    \E i \in 1..Len(self) : heap[self[i]].origin # heap[self[1]].origin

\* C20: get_origins returns the origin of every record, in the order of the
\* Dataset, also when the origins differ; it emits a warning iff warnings
\* are enabled and some record's origin differs from the first record's;
\* get_stations returns the station of every record in that order
C20_OriginsAndWarning ==
    /\ (Called("get_origins") /\ AllHaveOrigin) =>
        /\ raised = "none"
        /\ out # Unset
        /\ out[1] = [i \in 1..Len(self) |-> heap[self[i]].origin]
        /\ emitted # << >> <=> (op[1].enabled /\ MixedOrigins)
        /\ self = prev
        /\ heap = snap
    /\ (Called("get_stations") /\ AllHaveStation) =>
        /\ raised = "none"
        /\ out # Unset
        /\ out[1] = [i \in 1..Len(self) |-> heap[self[i]].station]
        /\ emitted = << >>

C20_Witness ==
    /\ Called("get_origins")
    /\ op[1].enabled
    /\ Len(self) = 2
    /\ AllHaveOrigin
    /\ MixedOrigins
    /\ emitted # << >>

(***************************************************************************)
(* Properties of map with a sequence of another length than the Dataset.   *)
(***************************************************************************)
\* the last call was map(function, sequence)
MapWithSequence ==
    IF op = Unset THEN FALSE
    ELSE op[1].name = "map" /\ op[1].sequences # << >>

ReturnedDataset ==
    /\ Called("map") \/ Called("apply") \/ Called("select")
    /\ out # Unset

\* C22: the Dataset that map, apply and select return carries the id of
\* the source Dataset, and no call changes the id of the source
C22_IdCarriedOver ==
    /\ [](ReturnedDataset => out[1].id = self_id)
    /\ [][self_id' = self_id]_vars

C22_Witness ==
    /\ Called("select")
    /\ self_id = "event"
    /\ out # Unset
    /\ Len(out[1].streams) = 1
    /\ Len(self) = 2
    /\ out[1].id = "event"

(***************************************************************************)
(* Properties of the records of the Dataset select returns.                *)
(***************************************************************************)
\* the last call was made on the Dataset select returned
CalledOnReturned == IF op = Unset THEN FALSE ELSE op[1].name \in ReturnedCalls

\* C29: the records of the Dataset select returned are not shared with the
\* source: a tag_add, tag_remove or append on the returned Dataset leaves
\* every record of the source (tags, identifier, distance and azimuth) and
\* the source's list as they were
C29_SelectOwnsRecords ==
    CalledOnReturned =>
        /\ self = prev
        /\ \A i \in 1..Len(self) : heap[self[i]] = snap[self[i]]

\* what the code keeps: a call on the returned Dataset changes no record of
\* the source that was not selected, and of a selected record only the tags
SharedRecordsKeepMetadata ==
    CalledOnReturned =>
        /\ self = prev
        /\ \A i \in 1..Len(self) :
            IF \E n \in 1..Len(out[1].streams) : out[1].streams[n] = self[i]
            THEN heap[self[i]] = [snap[self[i]] EXCEPT
                                      !.tags = heap[self[i]].tags]
            ELSE heap[self[i]] = snap[self[i]]

(***************************************************************************)
(* Properties of the waveform figure.                                      *)
(***************************************************************************)
\* the i-th pair was plotted
Plotted(i) ==
    \E n \in 1..Len(figure[1].did.plotted) : figure[1].did.plotted[n].pair = i

\* a warning was emitted for the i-th pair
Warned(i) ==
    \E n \in 1..Len(figure[1].did.warned) : figure[1].did.warned[n] = i

\* a trace label, with the trace's share of the total misfit, was computed
\* for the i-th pair
Labelled(i) ==
    \E n \in 1..Len(figure[1].did.labelled) : figure[1].did.labelled[n] = i

\* the last characters of the channel codes are equal ignoring case
SameComponent(i) ==
    Upper(stream_dat[i].channel[3]) = Upper(stream_syn[i].channel[3])

\* C23: a (data, synthetic) pair is plotted only if the last characters of
\* the channel codes are equal ignoring case and the data trace's weight is
\* not 0; exactly the pairs with mismatched components are flagged with a
\* warning, one each; a skipped pair is neither plotted nor labelled with
\* its share of the total
C23_ComponentAndWeightGating ==
    figure # Unset =>
        /\ \A i \in 1..Len(stream_dat) :
            /\ Plotted(i) =>
                /\ SameComponent(i)
                /\ stream_dat[i].weight # <<0>>
            /\ Warned(i) <=> ~SameComponent(i)
            /\ Labelled(i) => Plotted(i)
        /\ Len(figure[1].did.warnings) = Len(figure[1].did.warned)
        /\ \A n \in 1..Len(figure[1].did.plotted) :
            figure[1].did.plotted[n].pair \in 1..Len(stream_dat)

C23_Witness ==
    /\ figure # Unset
    /\ figure[1].wave = "surface"
    /\ Len(stream_dat) = 2
    /\ ~SameComponent(1)
    /\ Warned(1)
    /\ SameComponent(2)
    /\ stream_dat[2].channel # stream_syn[2].channel
    /\ stream_dat[2].weight = <<1>>
    /\ Plotted(2)
    /\ ~Plotted(1)

(***************************************************************************)
(* Properties of the depth reductions.                                     *)
(***************************************************************************)
\* the last call was one of the reductions named
Reduced(names) ==
    IF reduction = Unset THEN FALSE ELSE reduction[1].name \in names

AnyReduction ==
    {"plot_misfit_depth", "plot_likelihood_depth", "plot_marginal_depth"}

LikelihoodReductions == {"plot_likelihood_depth", "plot_marginal_depth"}

\* the last call was given what it needs besides the surface
SigmaGiven ==
    Reduced({"plot_misfit_depth"}) \/ reduction[1].sigma # Unset

\* the surface the last call reduced: the misfit, or the likelihood
ReducedSurface ==
    IF Reduced({"plot_misfit_depth"}) THEN misfit[1]
    ELSE reduction[1].likelihood[1].values

\* whether a beats b for the last call: smaller, or larger for the marginal
Beats(a, b) == IF Reduced({"plot_marginal_depth"}) THEN a > b ELSE a < b

\* C24: the projection returns, for every position k of the last axis and
\* in the order of that axis, the minimum (the maximum) of the slice over
\* the other axes and the flat index of the first element of the slice
\* that attains it, so that the lookup at the index gives the value back
C24_ProjectionPerDepth ==
    (Reduced(AnyReduction) /\ reduction[1].raised = "none") =>
        LET values == reduction[1].profile[1].values
            indices == reduction[1].indices[1]
        IN  /\ DOMAIN values = Depths
            /\ DOMAIN indices = Depths
            /\ \A k \in Depths :
                LET slice == [m \in DOMAIN ReducedSurface |->
                                 ReducedSurface[m][k]]
                    at == indices[k] + 1
                IN  /\ at \in DOMAIN slice
                    /\ \A m \in DOMAIN slice : ~Beats(slice[m], slice[at])
                    /\ \A m \in 1..(at - 1) : slice[m] # slice[at]
                    /\ values[k] # NaN => values[k] = slice[at]

C24_Witness ==
    /\ Reduced({"plot_misfit_depth"})
    /\ reduction[1].raised = "none"
    /\ Len(misfit[1]) = 2
    /\ misfit[1][1][1] = 16
    /\ misfit[1][2][1] = 16
    /\ misfit[1][1][2] = 16
    /\ misfit[1][2][2] = 0
    /\ reduction[1].indices[1][1] = 0
    /\ reduction[1].indices[1][2] = 1
    /\ reduction[1].profile[1].values[2] = 0

\* C25: for any misfit surface and any sigma the likelihood surface sums
\* to 1, every entry of it lies in [0, 1], and the profile over depth that
\* is handed to the plot sums to 1
C25_LikelihoodSumsToOne ==
    (Reduced(LikelihoodReductions) /\ surface[1].type \in ArrayTypes
        /\ reduction[1].sigma # Unset) =>
        /\ reduction[1].likelihood # Unset
        /\ LET lik == reduction[1].likelihood[1] IN
            /\ lik.den > 0
            /\ SumSurface(lik.values) = lik.den
            /\ \A m \in DOMAIN lik.values : \A k \in Depths :
                /\ lik.values[m][k] >= 0
                /\ lik.values[m][k] <= lik.den
        /\ reduction[1].profile # Unset
        /\ LET curve == reduction[1].profile[1] IN
            /\ curve.den > 0
            /\ SumFloats(curve.values) = curve.den

\* C26: without sigma plot_likelihood_depth and plot_marginal_depth fail
\* before they read the origins, check or copy the surface, compute
\* anything or write the file
C26_SigmaRequired ==
    (Reduced(LikelihoodReductions) /\ reduction[1].sigma = Unset) =>
        /\ reduction[1].raised # "none"
        /\ reduction[1].steps = << >>
        /\ reduction[1].likelihood = Unset
        /\ reduction[1].profile = Unset
        /\ ~reduction[1].saved

C26_Witness ==
    /\ Reduced({"plot_marginal_depth"})
    /\ reduction[1].sigma = Unset
    /\ surface[1].type = "DataArray"
    /\ reduction[1].raised = "AssertionError"

BestMisfitIndex(k) ==
    CHOOSE n \in 0..(Len(misfit[1]) - 1) :
        /\ \A m \in DOMAIN misfit[1] : misfit[1][n + 1][k] <= misfit[1][m][k]
        /\ \A m \in 1..n : misfit[1][m][k] # misfit[1][n + 1][k]

\* C28: on an array surface and for any sigma, plot_likelihood_depth and
\* plot_marginal_depth select at every depth the flat index that
\* plot_misfit_depth selects: that of the smallest misfit of the slice
C28_SameIndexAsMisfit ==
    (Reduced(LikelihoodReductions) /\ reduction[1].raised = "none") =>
        \A k \in Depths : reduction[1].indices[1][k] = BestMisfitIndex(k)

\* what holds of plot_marginal_depth alone, when the likelihood is a number
MarginalSelectsBestMisfit ==
    (Reduced({"plot_marginal_depth"}) /\ reduction[1].raised = "none"
        /\ reduction[1].likelihood[1].values[1][1] # NaN) =>
        \A k \in Depths : reduction[1].indices[1][k] = BestMisfitIndex(k)

\* C30: after a reduction, whether it returned or raised, the caller's
\* surface holds the values it held before
C30_InputUnchanged ==
    Reduced(AnyReduction) =>
        /\ surface[1].values = misfit[1]
        /\ surface[1].den = 1

C30_Witness ==
    /\ Reduced({"plot_likelihood_depth"})
    /\ reduction[1].raised = "none"
    /\ reduction[1].sigma = <<1>>
    /\ reduction[1].likelihood[1].values # misfit[1]
    /\ reduction[1].likelihood[1].den # 1
    /\ surface[1].values = misfit[1]

=============================================================================
